---- MODULE Spec2Model ----
(***************************************************************************)
(* A model of backend/app.py: the rule-based categorizer, the statement    *)
(* extractor with its amount and date parsing, and the in-memory year /    *)
(* month transaction store with its request handlers.                      *)
(*                                                                         *)
(* Python values are modelled as follows.                                  *)
(*   str        a TLA+ string; characters are read with SubSeq             *)
(*   None       NoneVal where the other values are records, and the empty  *)
(*              tuple <<>> where the other values are strings or lists     *)
(*              (an optional string s is <<s>>)                            *)
(*   float      a decimal [m |-> mantissa, e |-> fraction digits], value   *)
(*              m / 10^e, normalised so that equal numbers are equal       *)
(*   list       a sequence                                                 *)
(*   dict       a function whose DOMAIN is the set of keys                 *)
(***************************************************************************)
EXTENDS Integers, Sequences, FiniteSets, TLC

VARIABLES
    financial_data,     \* app.py:29, year -> month -> bucket
    response,           \* HTTP status of the last request handled
    request,            \* the handler that handled the last request
    handlers,           \* the add_transaction calls of SpecRace, one per request thread
    pc,                 \* position of extract_transactions_from_pdf
    page_num,           \* enumerate(pdf.pages) index, 0-based
    table_num,          \* enumerate(tables) index, 0-based
    row_num,            \* enumerate(table) index, 0-based
    line_num,           \* enumerate(lines) index, 0-based
    cur,                \* the row or line this iteration read, and what became of it
    transactions_data,  \* the list extract_transactions_from_pdf accumulates
    origins,            \* history: where each element of transactions_data came from
    items_read,         \* history: how many rows and lines have been read
    returned,           \* the value extract_transactions_from_pdf returned
    description,        \* argument of categorize_transaction
    amount,             \* argument of categorize_transaction
    category,           \* result of categorize_transaction
    vendor              \* result of normalize_vendor

storeVars == <<financial_data, response, request, handlers>>
extractVars == <<pc, page_num, table_num, row_num, line_num, cur,
                 transactions_data, origins, items_read, returned>>
catVars == <<description, amount, category, vendor>>
vars == <<storeVars, extractVars, catVars>>

NoneVal == [none |-> TRUE]

(***************************************************************************)
(* Python str methods and operators.                                       *)
(***************************************************************************)
CharAt(s, i) == SubSeq(s, i, i)

UpperCase == "ABCDEFGHIJKLMNOPQRSTUVWXYZ"
LowerCase == "abcdefghijklmnopqrstuvwxyz"
Digits == "0123456789"

IsCharOf(c, alphabet) == \E i \in 1..Len(alphabet) : CharAt(alphabet, i) = c

IndexIn(c, alphabet) == CHOOSE i \in 1..Len(alphabet) : CharAt(alphabet, i) = c

IsDigit(c) == IsCharOf(c, Digits)

IsAlpha(c) == IsCharOf(c, UpperCase) \/ IsCharOf(c, LowerCase)

IsSpace(c) == c \in {" ", "\n", "\t"}

LowerChar(c) ==
    IF IsCharOf(c, UpperCase) THEN CharAt(LowerCase, IndexIn(c, UpperCase)) ELSE c

RECURSIVE lower(_)
lower(s) ==
    IF s = "" THEN "" ELSE LowerChar(CharAt(s, 1)) \o lower(SubSeq(s, 2, Len(s)))

\* keyword in s
Contains(s, keyword) ==
    \E i \in 1..(Len(s) - Len(keyword) + 1) : SubSeq(s, i, i + Len(keyword) - 1) = keyword

startswith(s, prefix) ==
    Len(s) >= Len(prefix) /\ SubSeq(s, 1, Len(prefix)) = prefix

endswith(s, suffix) ==
    Len(s) >= Len(suffix) /\ SubSeq(s, Len(s) - Len(suffix) + 1, Len(s)) = suffix

RECURSIVE lstrip(_)
lstrip(s) ==
    IF s # "" /\ IsSpace(CharAt(s, 1)) THEN lstrip(SubSeq(s, 2, Len(s))) ELSE s

RECURSIVE rstrip(_)
rstrip(s) ==
    IF s # "" /\ IsSpace(CharAt(s, Len(s))) THEN rstrip(SubSeq(s, 1, Len(s) - 1)) ELSE s

strip(s) == rstrip(lstrip(s))

\* sep.join(parts)
RECURSIVE join(_, _)
join(sep, parts) ==
    IF parts = <<>> THEN ""
    ELSE IF Len(parts) = 1 THEN parts[1]
    ELSE parts[1] \o sep \o join(sep, Tail(parts))

\* s.split(sep) for a one-character separator: every separator cuts, empty
\* pieces are kept
RECURSIVE SplitOn(_, _, _)
SplitOn(s, sep, piece) ==
    IF s = "" THEN <<piece>>
    ELSE IF CharAt(s, 1) = sep
         THEN <<piece>> \o SplitOn(SubSeq(s, 2, Len(s)), sep, "")
         ELSE SplitOn(SubSeq(s, 2, Len(s)), sep, piece \o CharAt(s, 1))

\* s.split(): cuts at runs of whitespace, no empty pieces
RECURSIVE SplitWhitespace(_, _)
SplitWhitespace(s, piece) ==
    IF s = "" THEN (IF piece = "" THEN <<>> ELSE <<piece>>)
    ELSE IF IsSpace(CharAt(s, 1))
         THEN (IF piece = "" THEN <<>> ELSE <<piece>>)
              \o SplitWhitespace(SubSeq(s, 2, Len(s)), "")
         ELSE SplitWhitespace(SubSeq(s, 2, Len(s)), piece \o CharAt(s, 1))

split(s) == SplitWhitespace(s, "")

(***************************************************************************)
(* The categorizer.                                                        *)
(***************************************************************************)
CATEGORIES ==
    << "Uncategorized", "Processing", "Bank Fees", "Advertisement", "Marketing",
       "Repairs and Maintenance", "EV/Gas", "Supplies", "Software", "Meals 50%",
       "Shipping", "Travel", "Utilities", "Office Rent", "Professional Services",
       "Equipment", "Sales", "Insurance", "Other" >>

\* a dict in insertion order, which is the order items() iterates in
CATEGORIZATION_RULES ==
    << [category |-> "Processing", keywords |-> <<"square", "stripe", "paypal">>],
       [category |-> "Bank Fees", keywords |-> <<"fee", "charge", "interest", "overdraft">>],
       [category |-> "Advertisement",
        keywords |-> <<"photo", "photohub", "printing", "ad", "advertisement">>],
       [category |-> "Marketing",
        keywords |-> <<"facebook", "instagram", "google ads", "advertising", "marketing">>],
       [category |-> "Repairs and Maintenance",
        keywords |-> <<"home depot", "lowe", "advance auto", "autozone", "autopart",
                       "repair", "maintenance">>],
       [category |-> "EV/Gas",
        keywords |-> <<"supercharging", "super charging", "gas station", "fuel">>],
       [category |-> "Supplies",
        keywords |-> <<"office depot", "staples", "ikea", "amazon", "supplies",
                       "paper", "ink">>],
       [category |-> "Software",
        keywords |-> <<"google svcs", "google", "microsoft", "adobe", "slack", "zoom",
                       "dropbox", "aws", "github", "canva", "expens">>],
       [category |-> "Meals 50%",
        keywords |-> <<"mcdonald", "starbucks", "chick-fil-a", "chipotle", "wendy",
                       "burger king", "dunkin", "panera", "subway", "domino">>],
       [category |-> "Shipping", keywords |-> <<"ups store", "fedex", "usps", "shipping">>],
       [category |-> "Travel", keywords |-> <<"uber", "lyft", "hotel", "airline", "parking">>],
       [category |-> "Utilities",
        keywords |-> <<"bge", "balt gas", "gas and electric", "utility", "utilities",
                       "electric", "water", "verizon", "comcast">>],
       [category |-> "Professional Services",
        keywords |-> <<"legal", "accounting", "consulting", "lawyer", "cpa">>] >>

\* amount > 0 for a float
IsPositive(a) == a.m > 0

\* faulty variant: the table is read from its last category to its first
RECURSIVE KeywordTableFrom_Reversed(_, _)
KeywordTableFrom_Reversed(description_lower, i) ==
    LET n == Len(CATEGORIZATION_RULES) + 1 - i
    IN  IF i > Len(CATEGORIZATION_RULES) THEN "Uncategorized"
        ELSE IF \E k \in 1..Len(CATEGORIZATION_RULES[n].keywords) :
                    Contains(description_lower, CATEGORIZATION_RULES[n].keywords[k])
             THEN CATEGORIZATION_RULES[n].category
             ELSE KeywordTableFrom_Reversed(description_lower, i + 1)

\* the loop over CATEGORIZATION_RULES.items(): the first category, in table
\* order, one of whose keywords occurs in description_lower
RECURSIVE KeywordTableFrom(_, _)
KeywordTableFrom(description_lower, i) ==
    IF i > Len(CATEGORIZATION_RULES) THEN "Uncategorized"
    ELSE IF \E k \in 1..Len(CATEGORIZATION_RULES[i].keywords) :
                Contains(description_lower, CATEGORIZATION_RULES[i].keywords[k])
         THEN CATEGORIZATION_RULES[i].category
         ELSE KeywordTableFrom(description_lower, i + 1)

\* description.lower(), the first statement of categorize_transaction
description_lower_of(d) == lower(d)

\* faulty variant: both words are required
TeslaIsCharging_Both(description_lower) ==
    Contains(description_lower, "super") /\ Contains(description_lower, "charge")

\* the tesla test: "super" in description_lower or "charge" in description_lower
TeslaIsCharging(description_lower) ==
    Contains(description_lower, "super") \/ Contains(description_lower, "charge")

\* the test that guards the Square override
IsSquare(description_lower) ==
    \/ Contains(description_lower, "square inc")
    \/ startswith(description_lower, "square ")
    \/ startswith(description_lower, "sq *")

\* faulty variant: the comparison is amount >= 0
SquareCategory_NonNegative(a) ==
    IF a # NoneVal /\ a.m >= 0 THEN "Sales" ELSE "Uncategorized"

\* the body of the Square override: amount is not None and amount > 0
SquareCategory(a) ==
    IF a # NoneVal /\ IsPositive(a) THEN "Sales" ELSE "Uncategorized"

\* faulty variant: the home depot test is missing from the high-priority block
HighPriority_TeslaOnly(description_lower) ==
    IF Contains(description_lower, "tesla")
    THEN (IF TeslaIsCharging(description_lower) THEN <<"EV/Gas">>
          ELSE <<"Repairs and Maintenance">>)
    ELSE <<>>

\* "Special high-priority logic": the tesla and home depot tests
HighPriority(description_lower) ==
    IF Contains(description_lower, "tesla")
    THEN (IF TeslaIsCharging(description_lower) THEN <<"EV/Gas">>
          ELSE <<"Repairs and Maintenance">>)
    ELSE IF Contains(description_lower, "home depot") THEN <<"Repairs and Maintenance">>
    ELSE <<>>

\* faulty variant: the amex test also asks for an amount below zero
UserRules_AmexBySign(description_lower, a) ==
    IF Contains(description_lower, "hdphotohub") THEN <<"Software">>
    ELSE IF Contains(description_lower, "affirm") THEN <<"Equipment">>
    ELSE IF Contains(description_lower, "amex") /\ a # NoneVal /\ a.m < 0
    THEN <<"Bank Fees">>
    ELSE IF IsSquare(description_lower) THEN <<SquareCategory(a)>>
    ELSE IF Contains(description_lower, "apple") THEN <<"Software">>
    ELSE IF Contains(description_lower, "bk od amer") THEN <<"Bank Fees">>
    ELSE IF Contains(description_lower, "cubicasa") THEN <<"Software">>
    ELSE <<>>

\* "User-provided mapping rules"
UserRules(description_lower, a) ==
    IF Contains(description_lower, "hdphotohub") THEN <<"Software">>
    ELSE IF Contains(description_lower, "affirm") THEN <<"Equipment">>
    ELSE IF Contains(description_lower, "amex") THEN <<"Bank Fees">>
    ELSE IF IsSquare(description_lower) THEN <<SquareCategory(a)>>
    ELSE IF Contains(description_lower, "apple") THEN <<"Software">>
    ELSE IF Contains(description_lower, "bk od amer") THEN <<"Bank Fees">>
    ELSE IF Contains(description_lower, "cubicasa") THEN <<"Software">>
    ELSE <<>>

\* each block returns from the function when one of its tests succeeds
categorize_transaction(d, a) ==
    LET description_lower == description_lower_of(d)
        high == HighPriority(description_lower)
        user == UserRules(description_lower, a)
    IN  IF high # <<>> THEN high[1]
        ELSE IF user # <<>> THEN user[1]
        ELSE KeywordTableFrom(description_lower, 1)

(***************************************************************************)
(* float(), datetime.strptime() and date.isoformat().                      *)
(*                                                                         *)
(* float() is modelled on ASCII strings: surrounding whitespace, a sign,    *)
(* digits with single underscores between them, a point, an exponent, and  *)
(* the words inf, infinity and nan in any letter case. The infinities and  *)
(* nan are records with a third field, so that no finite value equals them *)
(* and "amount > 0" reads their m like that of any other float.            *)
(* A finite value is the exact decimal the string denotes: the strings the *)
(* model feeds it have few digits and an exponent of one digit, so that    *)
(* rounding, overflow to inf and underflow to 0 do not occur.              *)
(***************************************************************************)
ValueError == [error |-> "ValueError"]

RECURSIVE AllDigits(_)
AllDigits(s) == s = "" \/ (IsDigit(CharAt(s, 1)) /\ AllDigits(SubSeq(s, 2, Len(s))))

\* int(s) of a string of decimal digits ("" is 0)
RECURSIVE DigitsValue(_)
DigitsValue(s) ==
    IF s = "" THEN 0
    ELSE 10 * DigitsValue(SubSeq(s, 1, Len(s) - 1)) + (IndexIn(CharAt(s, Len(s)), Digits) - 1)

\* a decimal in lowest terms: equal numbers get equal records
RECURSIVE Normalize(_)
Normalize(f) ==
    IF f.e > 0 /\ f.m % 10 = 0 THEN Normalize([m |-> f.m \div 10, e |-> f.e - 1]) ELSE f

nan == [m |-> 0, e |-> 0, special |-> "nan"]

inf(sign) == [m |-> sign, e |-> 0, special |-> "inf"]

\* a finite float, as opposed to an infinity or nan
isfinite(f) == DOMAIN f = {"m", "e"}

RECURSIVE RemoveUnderscores(_)
RemoveUnderscores(s) ==
    IF s = "" THEN ""
    ELSE (IF CharAt(s, 1) = "_" THEN "" ELSE CharAt(s, 1))
         \o RemoveUnderscores(SubSeq(s, 2, Len(s)))

\* digits with single underscores between them: digit ("_"? digit)*
IsDigitPart(s) ==
    /\ s # ""
    /\ \A i \in 1..Len(s) : IsDigit(CharAt(s, i)) \/ CharAt(s, i) = "_"
    /\ IsDigit(CharAt(s, 1)) /\ IsDigit(CharAt(s, Len(s)))
    /\ \A i \in 1..(Len(s) - 1) : ~ (CharAt(s, i) = "_" /\ CharAt(s, i + 1) = "_")

RECURSIVE Pow10(_)
Pow10(n) == IF n = 0 THEN 1 ELSE 10 * Pow10(n - 1)

\* float(s) for a str s
float(s) ==
    LET t == strip(s)
        signed == t # "" /\ CharAt(t, 1) \in {"-", "+"}
        sign == IF signed /\ CharAt(t, 1) = "-" THEN -1 ELSE 1
        body == lower(IF signed THEN SubSeq(t, 2, Len(t)) ELSE t)
        parts == SplitOn(body, "e", "")
        pieces == SplitOn(parts[1], ".", "")
        whole == pieces[1]
        frac == IF Len(pieces) = 2 THEN pieces[2] ELSE ""
        exp_signed == Len(parts) = 2 /\ parts[2] # "" /\ CharAt(parts[2], 1) \in {"-", "+"}
        exp_digits == IF Len(parts) # 2 THEN "0"
                      ELSE IF exp_signed THEN SubSeq(parts[2], 2, Len(parts[2]))
                      ELSE parts[2]
        exponent == (IF exp_signed /\ CharAt(parts[2], 1) = "-" THEN -1 ELSE 1)
                    * DigitsValue(RemoveUnderscores(exp_digits))
        frac_digits == RemoveUnderscores(frac)
        magnitude == DigitsValue(RemoveUnderscores(whole) \o frac_digits)
        places == Len(frac_digits) - exponent
    IN  IF body \in {"inf", "infinity"} THEN inf(sign)
        ELSE IF body = "nan" THEN nan
        ELSE IF /\ Len(parts) <= 2 /\ Len(pieces) <= 2
                /\ whole = "" \/ IsDigitPart(whole)
                /\ frac = "" \/ IsDigitPart(frac)
                /\ whole \o frac # ""
                /\ IsDigitPart(exp_digits)
        THEN Normalize([m |-> sign * magnitude * (IF places < 0 THEN Pow10(-places) ELSE 1),
                        e |-> IF places < 0 THEN 0 ELSE places])
        ELSE ValueError

\* re.sub(r'[,$]', '', s)
RECURSIVE RemoveCommaDollar(_)
RemoveCommaDollar(s) ==
    IF s = "" THEN ""
    ELSE (IF CharAt(s, 1) \in {",", "$"} THEN "" ELSE CharAt(s, 1))
         \o RemoveCommaDollar(SubSeq(s, 2, Len(s)))

\* amount_clean[1:-1]
Slice1Minus1(s) == SubSeq(s, 2, Len(s) - 1)

\* the amount parsing of the table pass (and, word for word, of the text pass)
parse_amount(amount_str) ==
    LET amount_clean == RemoveCommaDollar(amount_str)
    IN  float(IF startswith(amount_clean, "(") /\ endswith(amount_clean, ")")
              THEN "-" \o Slice1Minus1(amount_clean)
              ELSE amount_clean)

IsLeap(y) == (y % 4 = 0 /\ y % 100 # 0) \/ y % 400 = 0

DaysInMonth(y, m) ==
    IF m = 2 THEN (IF IsLeap(y) THEN 29 ELSE 28)
    ELSE IF m \in {4, 6, 9, 11} THEN 30 ELSE 31

\* the directive %m: 1[0-2]|0[1-9]|[1-9]
MatchesMonth(s) ==
    /\ Len(s) \in {1, 2} /\ AllDigits(s)
    /\ DigitsValue(s) \in 1..12

\* the directive %d: 3[0-1]|[1-2]\d|0[1-9]|[1-9]| [1-9]
MatchesDay(s) ==
    \/ Len(s) \in {1, 2} /\ AllDigits(s) /\ DigitsValue(s) \in 1..31
    \/ Len(s) = 2 /\ CharAt(s, 1) = " " /\ IsDigit(CharAt(s, 2)) /\ CharAt(s, 2) # "0"

\* datetime.strptime(date_str, '%m/%d/%y' or '%m/%d/%Y').date(); year_digits
\* is 2 for %y and 4 for %Y. The whole string must be used up, %y maps
\* 00..68 to 2000..2068 and 69..99 to 1969..1999, and the day must exist.
strptime(date_str, year_digits) ==
    LET pieces == SplitOn(date_str, "/", "")
    IN  IF Len(pieces) # 3 THEN ValueError
        ELSE IF ~ (/\ MatchesMonth(pieces[1])
                   /\ MatchesDay(pieces[2])
                   /\ Len(pieces[3]) = year_digits /\ AllDigits(pieces[3]))
        THEN ValueError
        ELSE LET y0 == DigitsValue(pieces[3])
                 y == IF year_digits = 4 THEN y0
                      ELSE IF y0 <= 68 THEN 2000 + y0 ELSE 1900 + y0
                 m == DigitsValue(pieces[1])
                 d == DigitsValue(strip(pieces[2]))
             IN  IF y >= 1 /\ d <= DaysInMonth(y, m)
                 THEN [year |-> y, month |-> m, day |-> d]
                 ELSE ValueError

\* faulty variant: only %m/%d/%y is tried
parse_date_ShortOnly(date_str) == strptime(date_str, 2)

\* the nested try/except: %m/%d/%y first, %m/%d/%Y second
parse_date(date_str) ==
    LET first == strptime(date_str, 2)
    IN  IF first # ValueError THEN first ELSE strptime(date_str, 4)

ZeroPad(n, width) ==
    LET t == ToString(n)
    IN  SubSeq("0000", 1, width - Len(t)) \o t

\* date.isoformat()
isoformat(d) == ZeroPad(d.year, 4) \o "-" \o ZeroPad(d.month, 2) \o "-" \o ZeroPad(d.day, 2)

(***************************************************************************)
(* The two candidate patterns.                                             *)
(***************************************************************************)
DigitsAt(s, i, n) ==
    i >= 1 /\ i + n - 1 <= Len(s) /\ \A j \in i..(i + n - 1) : IsDigit(CharAt(s, j))

\* \d{1,2}[/-]\d{1,2}[/-]\d{2,4} matches at position i of s
DatePatternAt(s, i) ==
    \E a \in {1, 2}, b \in {1, 2} :
        /\ DigitsAt(s, i, a)
        /\ i + a <= Len(s) /\ CharAt(s, i + a) \in {"/", "-"}
        /\ DigitsAt(s, i + a + 1, b)
        /\ i + a + 1 + b <= Len(s) /\ CharAt(s, i + a + 1 + b) \in {"/", "-"}
        /\ DigitsAt(s, i + a + b + 2, 2)

\* re.match(r'\d{1,2}[/-]\d{1,2}[/-]\d{2,4}', s)
MatchDatePattern(s) == DatePatternAt(s, 1)

\* re.search(r'\d{1,2}[/-]\d{1,2}[/-]\d{2,4}', s)
SearchDatePattern(s) == \E i \in 1..Len(s) : DatePatternAt(s, i)

\* re.search(r'[\d,]+\.?\d*', s): one digit or comma is a match
SearchNumericPattern(s) ==
    \E i \in 1..Len(s) : IsDigit(CharAt(s, i)) \/ CharAt(s, i) = ","

(***************************************************************************)
(* extract_transactions_from_pdf: what one iteration of the row loop and   *)
(* of the line loop does with the row or line it reads.                    *)
(*                                                                         *)
(* A row is a sequence of cells and a cell is a string. A None row is      *)
(* modelled as the empty row and a None cell as the empty string: the code *)
(* tests both for truth only ("if row", "if cell"), so None and the empty  *)
(* value take the same branch.                                             *)
(***************************************************************************)
\* faulty variant: the except clause around a row or line names TypeError only
InnerExceptCatches_TypeErrorOnly(exc) == exc \in {"TypeError"}

\* the exceptions the except clause around a row or line catches
InnerExceptCatches(exc) == exc \in {"ValueError", "TypeError"}

transaction_of(date_obj, d, a) ==
    [date |-> isoformat(date_obj),
     description |-> d,
     amount |-> a,
     category |-> categorize_transaction(d, a)]

\* the try block of a candidate: the amount, then the date, then the append.
\* outcome "raised" is an exception that leaves the try block uncaught.
try_candidate(date_str, d, amount_str) ==
    LET a == parse_amount(amount_str)
        date_obj == parse_date(date_str)
        fields == [date_str |-> date_str, description |-> d, amount_str |-> amount_str,
                   candidate |-> TRUE]
    IN  IF a = ValueError
        THEN [outcome |-> IF InnerExceptCatches(a.error) THEN "bad_amount" ELSE "raised",
              txn |-> <<>>] @@ fields
        ELSE IF date_obj = ValueError
        THEN [outcome |-> "bad_date", txn |-> <<>>] @@ fields
        ELSE [outcome |-> "added", txn |-> <<transaction_of(date_obj, d, a)>>] @@ fields

NotCandidate(why) ==
    [outcome |-> why, txn |-> <<>>, date_str |-> "", description |-> "", amount_str |-> "",
     candidate |-> FALSE]

\* [cell.strip() if cell else "" for cell in row]
cleaned_row_of(row) == [i \in 1..Len(row) |-> strip(row[i])]

\* any(cleaned_row)
any(cleaned_row) == \E i \in 1..Len(cleaned_row) : cleaned_row[i] # ""

\* as RowIsLongEnough, with two cells being enough
RowIsLongEnough_TwoCells(row) == row # <<>> /\ Len(row) >= 2

\* the length test that guards the body of the row loop
RowIsLongEnough(row) == row # <<>> /\ Len(row) >= 3

\* the test that skips "header rows and empty rows"
RowIsSkipped(cleaned_row) == cleaned_row[1] = "" \/ ~ any(cleaned_row)

\* faulty variant: the slice is cleaned_row[1:], which takes the amount cell too
row_description_ToTheEnd(cleaned_row) == join(" ", Tail(cleaned_row))

\* " ".join(cleaned_row[1:-1]), the branch taken by every row of 3 cells or more
row_description(cleaned_row) == join(" ", SubSeq(cleaned_row, 2, Len(cleaned_row) - 1))

\* the body of "for row_num, row in enumerate(table)"
table_row(row) ==
    IF ~ RowIsLongEnough(row) THEN NotCandidate("short")
    ELSE LET cleaned_row == cleaned_row_of(row)
             date_str == cleaned_row[1]
             d == row_description(cleaned_row)
             amount_str == cleaned_row[Len(cleaned_row)]
         IN  IF RowIsSkipped(cleaned_row) THEN NotCandidate("empty")
             ELSE IF MatchDatePattern(date_str) /\ SearchNumericPattern(amount_str)
             THEN try_candidate(date_str, d, amount_str)
             ELSE NotCandidate("no_pattern")

\* the length test that guards the try block of the line loop
LineIsLongEnough(parts) == Len(parts) >= 3

\* the body of "for line_num, line in enumerate(lines)"
text_line(raw_line) ==
    LET line == strip(raw_line)
        parts == split(line)
    IN  IF line = "" THEN NotCandidate("empty")
        ELSE IF SearchDatePattern(line) /\ SearchNumericPattern(line)
        THEN (IF LineIsLongEnough(parts)
              THEN try_candidate(parts[1],
                                 join(" ", SubSeq(parts, 2, Len(parts) - 1)),
                                 parts[Len(parts)])
              ELSE NotCandidate("short"))
        ELSE NotCandidate("no_pattern")

(***************************************************************************)
(* extract_transactions_from_pdf as a function of the whole document, the  *)
(* form upload_file calls it in. A document is                             *)
(*   [openable |-> BOOLEAN, pages |-> sequence of pages]                   *)
(* and a page is [tables |-> what extract_tables() returns, a sequence of  *)
(* tables, each a sequence of rows; text |-> what extract_text() returns,  *)
(* with None modelled as ""]. The calls into the PDF library are taken to  *)
(* return normally once the document is open.                              *)
(***************************************************************************)
RECURSIVE RowsFrom(_, _)
RowsFrom(table, i) ==
    IF i > Len(table) THEN <<>> ELSE table_row(table[i]).txn \o RowsFrom(table, i + 1)

RECURSIVE TablesFrom(_, _)
TablesFrom(tbls, i) ==
    IF i > Len(tbls) THEN <<>> ELSE RowsFrom(tbls[i], 1) \o TablesFrom(tbls, i + 1)

RECURSIVE LinesFrom(_, _)
LinesFrom(lns, i) ==
    IF i > Len(lns) THEN <<>> ELSE text_line(lns[i]).txn \o LinesFrom(lns, i + 1)

\* text.split('\n')
split_lines(text) == SplitOn(text, "\n", "")

\* the body of "for page_num, page in enumerate(pdf.pages)"
page_transactions(page) ==
    TablesFrom(page.tables, 1)
    \o (IF page.text # "" THEN LinesFrom(split_lines(page.text), 1) ELSE <<>>)

RECURSIVE PagesFrom(_, _)
PagesFrom(pages, i) ==
    IF i > Len(pages) THEN <<>> ELSE page_transactions(pages[i]) \o PagesFrom(pages, i + 1)

\* the value returned when pdfplumber.open raises: the except branch
on_open_failure == <<>>

extract_transactions_from_pdf(pdf) ==
    IF pdf.openable THEN PagesFrom(pdf.pages, 1) ELSE on_open_failure

(***************************************************************************)
(* SPECIFICATIONS                                                          *)
(***************************************************************************)

(***************************************************************************)
(* SpecExtract: one call of extract_transactions_from_pdf, a loop          *)
(* iteration at a time. The document is read as the loops reach it: each   *)
(* loop head decides whether the sequence it iterates over has a next      *)
(* element, and which.                                                     *)
(***************************************************************************)
MaxPages == 2
MaxTables == 2
MaxRows == 2
MaxLines == 2
MaxItems == 3

RowPool ==
    { <<"03/01/24", "AMAZON MARKETPLACE", "$45.67">>,
      <<"03/04/2024", "UBER", "TRIP", "(1,234.56)">>,
      <<"3/4/24", "x", "12x">>,
      <<"3-4-24", "x", "5.00">>,
      <<"Date", "Description", "Amount">>,
      <<"", "3/4/24", "x", "5.00">>,
      <<"3/4/24", "5.00">>,
      <<"", "", "">>,
      <<>> }

LinePool ==
    { "03/01/24 AMAZON MARKETPLACE $45.67",
      "3/4/24 x 12x",
      "3-4-24 x 5.00",
      "3/4/24 5.00",
      "Paid 3/4/24 5.00",
      "Page 1 of 2",
      "" }

NoRow == <<>>
NoItem == [kind |-> "none", row |-> NoRow, line |-> ""] @@ NotCandidate("none")
NothingReturned == [kind |-> "none", value |-> <<>>]
Return(value) == [kind |-> "return", value |-> value]

NoRequest == "none"

MaxRequests == 2

Threads == 1..MaxRequests

\* a request thread that has not been given its request yet; transaction_count
\* is the handler's local variable, status the HTTP status it answered with,
\* overlapped the history of whether another call was under way during this one
IdleHandler == [pc |-> "idle", transaction_count |-> 0, status |-> 0, overlapped |-> FALSE]

StoreIdle ==
    /\ financial_data = <<>>
    /\ response = 0
    /\ request = NoRequest
    /\ handlers = [t \in Threads |-> IdleHandler]

CatIdle ==
    /\ description = ""
    /\ amount = NoneVal
    /\ category = <<>>
    /\ vendor = <<>>

ExtractIdle ==
    /\ pc = "idle"
    /\ page_num = 0 /\ table_num = 0 /\ row_num = 0 /\ line_num = 0
    /\ cur = NoItem
    /\ transactions_data = <<>>
    /\ origins = <<>>
    /\ items_read = 0
    /\ returned = NothingReturned

InitExtract ==
    /\ pc = "open"
    /\ page_num = 0 /\ table_num = 0 /\ row_num = 0 /\ line_num = 0
    /\ cur = NoItem
    /\ transactions_data = <<>>
    /\ origins = <<>>
    /\ items_read = 0
    /\ returned = NothingReturned
    /\ StoreIdle /\ CatIdle

\* an exception that reaches "except Exception": return []
OuterExcept ==
    /\ pc' = "done"
    /\ returned' = Return(on_open_failure)

\* faulty variant: a transaction equal to one already in the list is not appended
Accumulate_Dedup(item, origin) ==
    LET seen == \E i \in 1..Len(transactions_data) : <<transactions_data[i]>> = item.txn
    IN  /\ cur' = item
        /\ items_read' = items_read + 1
        /\ transactions_data' = IF seen THEN transactions_data
                                ELSE transactions_data \o item.txn
        /\ origins' = IF item.txn = <<>> \/ seen THEN origins ELSE Append(origins, origin)
        /\ UNCHANGED <<pc, returned>>

\* faulty variant: a transaction is inserted at the front of the list
Accumulate_Prepend(item, origin) ==
    /\ cur' = item
    /\ items_read' = items_read + 1
    /\ transactions_data' = item.txn \o transactions_data
    /\ origins' = IF item.txn = <<>> THEN origins ELSE <<origin>> \o origins
    /\ UNCHANGED <<pc, returned>>

\* what the row loop body makes of each row, and the line loop body of each line
row_items == [row \in RowPool |-> table_row(row)]

line_items == [line \in LinePool |-> text_line(line)]

\* the effect of one row or line on the loop: append on success, nothing on
\* a skip, and the outer handler for an exception nothing else caught
Accumulate(item, origin) ==
    /\ cur' = item
    /\ items_read' = items_read + 1
    /\ IF item.outcome = "raised"
       THEN /\ OuterExcept
            /\ UNCHANGED <<transactions_data, origins>>
       ELSE /\ transactions_data' = transactions_data \o item.txn
            /\ origins' = IF item.txn = <<>> THEN origins ELSE Append(origins, origin)
            /\ UNCHANGED <<pc, returned>>

\* with pdfplumber.open(pdf_path) as pdf
OpenPdf ==
    /\ pc = "open"
    /\ \E openable \in BOOLEAN :
        IF openable
        THEN /\ pc' = "page_loop"
             /\ UNCHANGED <<cur, returned>>
        ELSE /\ OuterExcept
             /\ cur' = [NoItem EXCEPT !.outcome = "open_failed"]
    /\ UNCHANGED <<page_num, table_num, row_num, line_num, transactions_data, origins,
                   items_read, storeVars, catVars>>

\* for page_num, page in enumerate(pdf.pages), a next page: extract_tables()
\* and "if tables"
EnterPage ==
    /\ pc = "page_loop"
    /\ page_num < MaxPages
    /\ \E has_tables \in BOOLEAN : pc' = IF has_tables THEN "table_loop" ELSE "text"
    /\ cur' = NoItem
    /\ UNCHANGED <<page_num, table_num, row_num, line_num, transactions_data, origins,
                   items_read, returned, storeVars, catVars>>

\* the page loop is exhausted: return transactions_data
ReturnTransactions ==
    /\ pc = "page_loop"
    /\ pc' = "done"
    /\ returned' = Return(transactions_data)
    /\ cur' = NoItem
    /\ UNCHANGED <<page_num, table_num, row_num, line_num, transactions_data, origins,
                   items_read, storeVars, catVars>>

\* for table_num, table in enumerate(tables), a next table
EnterTable ==
    /\ pc = "table_loop"
    /\ table_num < MaxTables
    /\ pc' = "row_loop"
    /\ row_num' = 0
    /\ cur' = NoItem
    /\ UNCHANGED <<page_num, table_num, line_num, transactions_data, origins,
                   items_read, returned, storeVars, catVars>>

\* the table loop is exhausted ("if tables" held, so one table was seen)
EndTables ==
    /\ pc = "table_loop"
    /\ table_num >= 1
    /\ pc' = "text"
    /\ cur' = NoItem
    /\ UNCHANGED <<page_num, table_num, row_num, line_num, transactions_data, origins,
                   items_read, returned, storeVars, catVars>>

\* for row_num, row in enumerate(table), a next row
ProcessRow ==
    /\ pc = "row_loop"
    /\ row_num < MaxRows
    /\ items_read < MaxItems
    /\ \E row \in RowPool :
        Accumulate([kind |-> "row", row |-> row, line |-> ""] @@ row_items[row],
                   [page |-> page_num, pass |-> 1, table |-> table_num, item |-> row_num])
    /\ row_num' = row_num + 1
    /\ UNCHANGED <<page_num, table_num, line_num, storeVars, catVars>>

\* the row loop is exhausted
EndRows ==
    /\ pc = "row_loop"
    /\ pc' = "table_loop"
    /\ table_num' = table_num + 1
    /\ row_num' = 0
    /\ cur' = NoItem
    /\ UNCHANGED <<page_num, line_num, transactions_data, origins, items_read,
                   returned, storeVars, catVars>>

\* text = page.extract_text(); "if text" and text.split('\n'), or the else
\* branch, which ends the page
ExtractText ==
    /\ pc = "text"
    /\ \E has_text \in BOOLEAN :
        IF has_text
        THEN /\ pc' = "line_loop"
             /\ UNCHANGED page_num
        ELSE /\ pc' = "page_loop"
             /\ page_num' = page_num + 1
    /\ table_num' = 0
    /\ row_num' = 0
    /\ line_num' = 0
    /\ cur' = NoItem
    /\ UNCHANGED <<transactions_data, origins, items_read, returned, storeVars, catVars>>

\* for line_num, line in enumerate(lines), a next line
ProcessLine ==
    /\ pc = "line_loop"
    /\ line_num < MaxLines
    /\ items_read < MaxItems
    /\ \E line \in LinePool :
        Accumulate([kind |-> "line", row |-> NoRow, line |-> line] @@ line_items[line],
                   [page |-> page_num, pass |-> 2, table |-> 0, item |-> line_num])
    /\ line_num' = line_num + 1
    /\ UNCHANGED <<page_num, table_num, row_num, storeVars, catVars>>

\* the line loop is exhausted (split returns at least one line), which ends
\* the page
EndLines ==
    /\ pc = "line_loop"
    /\ line_num >= 1
    /\ pc' = "page_loop"
    /\ page_num' = page_num + 1
    /\ line_num' = 0
    /\ cur' = NoItem
    /\ UNCHANGED <<table_num, row_num, transactions_data, origins, items_read,
                   returned, storeVars, catVars>>

NextExtract ==
    \/ OpenPdf
    \/ EnterPage
    \/ ReturnTransactions
    \/ EnterTable
    \/ EndTables
    \/ ProcessRow
    \/ EndRows
    \/ ExtractText
    \/ ProcessLine
    \/ EndLines

SpecExtract == InitExtract /\ [][NextExtract]_vars

(***************************************************************************)
(* Properties of extract_transactions_from_pdf, under SpecExtract.         *)
(***************************************************************************)
IsPrefix(a, b) == Len(a) <= Len(b) /\ SubSeq(b, 1, Len(a)) = a

\* the candidate of this iteration fails amount or date parsing
FailsParsing(item) ==
    /\ item.candidate
    /\ (parse_amount(item.amount_str) = ValueError \/ parse_date(item.date_str) = ValueError)

\* o1 comes before o2: by page, then table pass before text pass, then by
\* table, then by row or line
Before(o1, o2) ==
    \/ o1.page < o2.page
    \/ o1.page = o2.page /\ o1.pass < o2.pass
    \/ o1.page = o2.page /\ o1.pass = o2.pass /\ o1.table < o2.table
    \/ o1.page = o2.page /\ o1.pass = o2.pass /\ o1.table = o2.table /\ o1.item < o2.item

\* C3 as claimed: when the PDF cannot be opened the call fails, and the
\* failure reaches the caller instead of an empty list.
C3_OpenFailureIsSurfaced ==
    (pc = "done" /\ cur.outcome = "open_failed") => returned.kind = "raise"

C5_TextPassAlwaysRunsNoDedup ==
    [][ /\ (page_num' # page_num) => pc \in {"text", "line_loop"}
        /\ (pc \in {"table_loop", "row_loop"} /\ pc' \notin {"table_loop", "row_loop"})
               => pc' = "text"
        /\ (items_read' # items_read /\ cur'.kind = "line" /\ cur'.candidate
                /\ ~ FailsParsing(cur'))
               => Len(transactions_data') = Len(transactions_data) + 1
      ]_vars

\* the same record, once from a table row and once from a text line of the
\* same page
C5_Witness ==
    \E i, j \in 1..Len(transactions_data) :
        /\ i < j
        /\ transactions_data[i] = transactions_data[j]
        /\ origins[i].page = origins[j].page
        /\ origins[i].pass = 1
        /\ origins[j].pass = 2

\* C6: the transactions are in page order; within a page those of the table
\* pass come before those of the text pass, tables are in detection order and
\* rows and lines in their own order; the list returned is this list.
C6_OutputOrder ==
    /\ Len(origins) = Len(transactions_data)
    /\ \A i, j \in 1..Len(origins) : i < j => Before(origins[i], origins[j])
    /\ (returned.kind = "return" /\ cur.outcome # "open_failed")
           => returned.value = transactions_data

C6_Witness ==
    /\ pc = "done"
    /\ Len(returned.value) = 3
    /\ origins[1].page = 0 /\ origins[1].pass = 1
    /\ origins[2].page = 0 /\ origins[2].pass = 2
    /\ origins[3].page = 1

\* the first cell of the row that is not empty once trimmed, "" if none
RECURSIVE FirstNonEmptyCell(_)
FirstNonEmptyCell(row) ==
    IF row = <<>> THEN ""
    ELSE IF strip(Head(row)) # "" THEN strip(Head(row))
    ELSE FirstNonEmptyCell(Tail(row))

\* the interior cells, trimmed, with one space between neighbours
RECURSIVE SpaceJoined(_, _, _)
SpaceJoined(row, from, to) ==
    IF from > to THEN ""
    ELSE IF from = to THEN strip(row[from])
    ELSE strip(row[from]) \o " " \o SpaceJoined(row, from + 1, to)

\* what C7 says of a candidate and of a row that is none
C7_Fields(item) ==
    /\ item.candidate =>
           /\ item.date_str = strip(item.row[1])
           /\ item.amount_str = strip(item.row[Len(item.row)])
           /\ item.description = SpaceJoined(item.row, 2, Len(item.row) - 1)
    /\ ~ item.candidate => (item.txn = <<>> /\ item.outcome # "raised")

\* C7 as claimed: a row of 3 cells or more is a candidate exactly when its
\* first non-empty cell matches the date pattern and its last cell contains
\* the numeric pattern.
C7_FirstNonEmptyCell ==
    (cur.kind = "row" /\ Len(cur.row) >= 3) =>
        /\ cur.candidate <=> /\ MatchDatePattern(FirstNonEmptyCell(cur.row))
                             /\ SearchNumericPattern(strip(cur.row[Len(cur.row)]))
        /\ C7_Fields(cur)

\* C7 as amended: a row of 3 cells or more is a candidate exactly when its
\* first cell matches the date pattern and its last cell contains the numeric
\* pattern (cells trimmed); the date is the first cell, the amount the last,
\* the description the interior cells joined by single spaces; any other row
\* yields nothing and raises nothing.
C7_FirstCell ==
    (cur.kind = "row" /\ Len(cur.row) >= 3) =>
        /\ cur.candidate <=> /\ MatchDatePattern(strip(cur.row[1]))
                             /\ SearchNumericPattern(strip(cur.row[Len(cur.row)]))
        /\ C7_Fields(cur)

C7_Witness ==
    /\ cur.kind = "row"
    /\ Len(cur.row) = 4
    /\ cur.candidate
    /\ cur.description = "UBER TRIP"
    /\ cur.outcome = "added"

(***************************************************************************)
(* SpecCat: categorize_transaction applied to a description made of up to  *)
(* MaxFragments fragments and to an amount, or to no amount.               *)
(***************************************************************************)
MaxFragments == 3

Fragments == {"SQ *", "Square ", "TESLA", "Super", "charge", "Home Depot", "amex", "cafe"}

RECURSIVE DescriptionsOf(_)
DescriptionsOf(n) ==
    IF n = 0 THEN {""}
    ELSE LET shorter == DescriptionsOf(n - 1)
         IN  shorter \cup {d \o f : d \in shorter, f \in Fragments}

\* None, 12.5, 0 and -3
Amounts == {NoneVal, [m |-> 125, e |-> 1], [m |-> 0, e |-> 0], [m |-> -3, e |-> 0]}

InitCat ==
    /\ description \in DescriptionsOf(MaxFragments)
    /\ amount = NoneVal
    /\ category = <<>>
    /\ vendor = <<>>
    /\ StoreIdle /\ ExtractIdle

\* category = categorize_transaction(description, amount)
Categorize ==
    /\ \E a \in Amounts :
        /\ amount' = a
        /\ category' = <<categorize_transaction(description, a)>>
    /\ UNCHANGED <<description, vendor, storeVars, extractVars>>

NextCat == Categorize

SpecCat == InitCat /\ [][NextCat]_vars

(***************************************************************************)
(* Properties of categorize_transaction, under SpecCat.                    *)
(***************************************************************************)
\* word occurs in d, letter case ignored (word is in lower case)
HasWord(d, word) ==
    \E i \in 1..(Len(d) - Len(word) + 1) :
        \A j \in 1..Len(word) : LowerChar(CharAt(d, i + j - 1)) = CharAt(word, j)

\* d starts with word, letter case ignored (word is in lower case)
StartsWord(d, word) ==
    /\ Len(d) >= Len(word)
    /\ \A j \in 1..Len(word) : LowerChar(CharAt(d, j)) = CharAt(word, j)

SquarePrefixed(d) == StartsWord(d, "square ") \/ StartsWord(d, "sq *")

\* C8 as claimed: every description that starts with "square " or "sq *" is
\* Sales when the amount is greater than 0 and Uncategorized when it is not.
C8_SquarePrefixAlways ==
    (category # <<>> /\ amount # NoneVal /\ SquarePrefixed(description)) =>
        category[1] = IF amount.m > 0 THEN "Sales" ELSE "Uncategorized"

\* C8 as amended: a description that starts with "square " or "sq *" and
\* contains none of "tesla", "home depot", "hdphotohub", "affirm", "amex" is
\* Sales when the amount is greater than 0 and Uncategorized when it is not.
C8_SquarePrefixUnlessEarlierRule ==
    (/\ category # <<>> /\ amount # NoneVal /\ SquarePrefixed(description)
     /\ \A w \in {"tesla", "home depot", "hdphotohub", "affirm", "amex"} :
            ~ HasWord(description, w)) =>
        category[1] = IF amount.m > 0 THEN "Sales" ELSE "Uncategorized"

C8_Witness ==
    /\ category = <<"Uncategorized">>
    /\ amount # NoneVal /\ amount.m = 0
    /\ StartsWord(description, "square ")

\* C9 as claimed: every description that contains "home depot" is Repairs and
\* Maintenance, whatever the amount.
C9_HomeDepotAlways ==
    (category # <<>> /\ HasWord(description, "home depot")) =>
        category[1] = "Repairs and Maintenance"

\* C9 as amended: a description that contains "home depot", and does not
\* contain "tesla" together with "super" or "charge", is Repairs and
\* Maintenance, whatever the amount.
C9_HomeDepotUnlessTeslaCharging ==
    (/\ category # <<>> /\ HasWord(description, "home depot")
     /\ ~ (/\ HasWord(description, "tesla")
           /\ (HasWord(description, "super") \/ HasWord(description, "charge")))) =>
        category[1] = "Repairs and Maintenance"

C9_Witness ==
    /\ category = <<"Repairs and Maintenance">>
    /\ HasWord(description, "home depot")
    /\ StartsWord(description, "sq *")
    /\ amount # NoneVal /\ amount.m > 0

\* C10: a description that contains "tesla" is EV/Gas when it also contains
\* "super" or "charge" and Repairs and Maintenance when it contains neither,
\* whatever the amount.
C10_Tesla ==
    (category # <<>> /\ HasWord(description, "tesla")) =>
        category[1] = IF HasWord(description, "super") \/ HasWord(description, "charge")
                      THEN "EV/Gas" ELSE "Repairs and Maintenance"

C10_Witness ==
    /\ category = <<"EV/Gas">>
    /\ HasWord(description, "tesla")
    /\ HasWord(description, "charge")
    /\ ~ HasWord(description, "super")
    /\ HasWord(description, "home depot")

\* the Square test is reached, and succeeds
ReachesSquare(d) ==
    /\ \A w \in {"tesla", "home depot", "hdphotohub", "affirm", "amex"} : ~ HasWord(d, w)
    /\ (HasWord(d, "square inc") \/ SquarePrefixed(d))

\* C12: for a description that does not reach the Square override, two calls
\* of categorize_transaction that differ only in the amount (a missing amount
\* included) return the same category.
C12_AmountMattersOnlyForSquare ==
    [][(category # <<>> /\ category' # <<>> /\ ~ ReachesSquare(description)) =>
           category' = category]_vars

C12_Witness ==
    /\ category = <<"Bank Fees">>
    /\ amount # NoneVal /\ amount.m < 0
    /\ StartsWord(description, "sq *")
    /\ HasWord(description, "amex")
    /\ ~ ReachesSquare(description)

(***************************************************************************)
(* SpecKeywords: categorize_transaction on descriptions made of words of   *)
(* the keyword table, in either letter case, with one word of the override *)
(* block and one word no rule knows.                                       *)
(***************************************************************************)
KeywordFragments ==
    {"ADVERTISING ", "Adobe", "fuel", "Google", "Uber ", "apple", "zzz"}

RECURSIVE KeywordDescriptionsOf(_)
KeywordDescriptionsOf(n) ==
    IF n = 0 THEN {""}
    ELSE LET shorter == KeywordDescriptionsOf(n - 1)
         IN  shorter \cup {d \o f : d \in shorter, f \in KeywordFragments}

InitKeywords ==
    /\ description \in KeywordDescriptionsOf(MaxFragments)
    /\ amount = NoneVal
    /\ category = <<>>
    /\ vendor = <<>>
    /\ StoreIdle /\ ExtractIdle

SpecKeywords == InitKeywords /\ [][NextCat]_vars

\* one of the tests that come before the keyword loop succeeds
Overridden(d) ==
    \/ \E w \in {"tesla", "home depot", "hdphotohub", "affirm", "amex", "square inc",
                 "apple", "bk od amer", "cubicasa"} : HasWord(d, w)
    \/ SquarePrefixed(d)

\* the characters of d, each in lower case
Folded(d) == [i \in 1..Len(d) |-> LowerChar(CharAt(d, i))]

\* word occurs in the characters chars
OccursIn(chars, word) ==
    \E i \in 1..(Len(chars) - Len(word) + 1) :
        \A j \in 1..Len(word) : chars[i + j - 1] = CharAt(word, j)

\* the positions in the table of the categories with a keyword occurring in
\* the characters chars
MatchingCategories(chars) ==
    { i \in 1..Len(CATEGORIZATION_RULES) :
        \E k \in 1..Len(CATEGORIZATION_RULES[i].keywords) :
            OccursIn(chars, CATEGORIZATION_RULES[i].keywords[k]) }

\* <<j, kj>>: keyword kj of category j contains a keyword of an earlier category
ShadowedKeywords ==
    { p \in UNION { { <<j, CATEGORIZATION_RULES[j].keywords[k]>> :
                        k \in 1..Len(CATEGORIZATION_RULES[j].keywords) } :
                    j \in 1..Len(CATEGORIZATION_RULES) } :
        \E i \in 1..(p[1] - 1) :
            \E k \in 1..Len(CATEGORIZATION_RULES[i].keywords) :
                HasWord(p[2], CATEGORIZATION_RULES[i].keywords[k]) }

\* C11: when no test before the keyword loop succeeds, the category is that of
\* the first entry of CATEGORIZATION_RULES with a keyword occurring in the
\* lowercased description, and Uncategorized when there is none; a keyword that
\* contains a keyword of an earlier category never selects its own category.
C11_FirstMatchingCategory ==
    (category # <<>> /\ ~ Overridden(description)) =>
        LET chars == Folded(description)
            hits == MatchingCategories(chars)
        IN  /\ IF hits = {}
               THEN category[1] = "Uncategorized"
               ELSE \E i \in hits :
                        /\ \A j \in hits : i <= j
                        /\ category[1] = CATEGORIZATION_RULES[i].category
            /\ \A p \in ShadowedKeywords :
                   OccursIn(chars, p[2]) =>
                       category[1] # CATEGORIZATION_RULES[p[1]].category

C11_Witness ==
    /\ category = <<"Advertisement">>
    /\ ~ Overridden(description)
    /\ HasWord(description, "advertising")
    /\ HasWord(description, "uber")
    /\ <<4, "advertising">> \in ShadowedKeywords

(***************************************************************************)
(* SpecParse: the body of the row loop and the body of the line loop, each *)
(* applied to one record made of a date string, the word STORE and an      *)
(* amount string, or of the date and the amount alone, in three, two or    *)
(* one cells or tokens. cur holds the record read last and what became of  *)
(* it.                                                                     *)
(***************************************************************************)
DateStrings ==
    {"3/4/24", "03/04/2024", "3/4/2024", "12/31/69", "3-4-24", "03-04/24",
     "03/04/2024x", "3/4/245", "02/30/24", "13/01/24"}

AmountStrings ==
    {"(1,234.56)", "$1,234.56", "45.67", "-12.00", "($5.00)", "12.5O", "1.2.3",
     "5.00-", "USD5", "nan", "nan,", "1e3"}

\* the rows a date and an amount are laid out in
RowsOf(date_str, amount_str) ==
    { <<date_str, "STORE", amount_str>>,
      <<date_str, amount_str>>,
      <<date_str \o " " \o amount_str>> }

\* the lines a date and an amount are laid out in
LinesOf(date_str, amount_str) ==
    { date_str \o " STORE " \o amount_str,
      date_str \o " " \o amount_str,
      date_str \o "|" \o amount_str }

InitParse ==
    /\ pc = "parse"
    /\ page_num = 0 /\ table_num = 0 /\ row_num = 0 /\ line_num = 0
    /\ cur = NoItem
    /\ transactions_data = <<>>
    /\ origins = <<>>
    /\ items_read = 0
    /\ returned = NothingReturned
    /\ StoreIdle /\ CatIdle

\* one iteration of "for row_num, row in enumerate(table)"
ParseRow ==
    /\ pc = "parse"
    /\ \E date_str \in DateStrings, amount_str \in AmountStrings :
        \E row \in RowsOf(date_str, amount_str) :
            cur' = [kind |-> "row", row |-> row, line |-> ""] @@ table_row(row)
    /\ pc' = "parsed"
    /\ UNCHANGED <<page_num, table_num, row_num, line_num, transactions_data,
                   origins, items_read, returned, storeVars, catVars>>

\* one iteration of "for line_num, line in enumerate(lines)"
ParseLine ==
    /\ pc = "parse"
    /\ \E date_str \in DateStrings, amount_str \in AmountStrings :
        \E line \in LinesOf(date_str, amount_str) :
            cur' = [kind |-> "line", row |-> NoRow, line |-> line] @@ text_line(line)
    /\ pc' = "parsed"
    /\ UNCHANGED <<page_num, table_num, row_num, line_num, transactions_data,
                   origins, items_read, returned, storeVars, catVars>>

NextParse == ParseRow \/ ParseLine

SpecParse == InitParse /\ [][NextParse]_vars

(***************************************************************************)
(* Properties of amount and date parsing, under SpecParse.                 *)
(***************************************************************************)
\* digits with at most one point among them, and at least one digit
IsDecimalText(s) ==
    /\ \A i \in 1..Len(s) : IsDigit(CharAt(s, i)) \/ CharAt(s, i) = "."
    /\ \E i \in 1..Len(s) : IsDigit(CharAt(s, i))
    /\ \A i, j \in 1..Len(s) : (CharAt(s, i) = "." /\ CharAt(s, j) = ".") => i = j

\* the number a decimal text denotes
DecimalValue(s) ==
    LET point == IF \E i \in 1..Len(s) : CharAt(s, i) = "."
                 THEN CHOOSE i \in 1..Len(s) : CharAt(s, i) = "."
                 ELSE Len(s) + 1
    IN  Normalize([m |-> DigitsValue(SubSeq(s, 1, point - 1) \o SubSeq(s, point + 1, Len(s))),
                   e |-> IF point > Len(s) THEN 0 ELSE Len(s) - point])

Negated(f) == [f EXCEPT !.m = - f.m]

\* C13: amount parsing removes every comma and dollar sign, negates a value
\* wrapped in parentheses and reads the rest as a decimal, so "(1,234.56)" is
\* -1234.56 and "$1,234.56" is 1234.56; an amount with non-numeric residue is
\* unparseable and its row or line gives no transaction; rows and lines are
\* treated alike.
C13_AmountParsing ==
    (pc = "parsed" /\ cur.candidate) =>
        LET clean == RemoveCommaDollar(cur.amount_str)
            wrapped == Len(clean) >= 2 /\ CharAt(clean, 1) = "("
                       /\ CharAt(clean, Len(clean)) = ")"
            minus == ~ wrapped /\ clean # "" /\ CharAt(clean, 1) = "-"
            plus == ~ wrapped /\ clean # "" /\ CharAt(clean, 1) = "+"
            text == IF wrapped THEN SubSeq(clean, 2, Len(clean) - 1)
                    ELSE IF minus \/ plus THEN SubSeq(clean, 2, Len(clean))
                    ELSE clean
        IN  /\ ~ IsDecimalText(text) => cur.txn = <<>>
            /\ cur.txn # <<>> =>
                   cur.txn[1].amount = IF wrapped \/ minus THEN Negated(DecimalValue(text))
                                       ELSE DecimalValue(text)
            /\ (cur.txn # <<>> /\ cur.amount_str = "(1,234.56)") =>
                   cur.txn[1].amount = [m |-> -123456, e |-> 2]
            /\ (cur.txn # <<>> /\ cur.amount_str = "$1,234.56") =>
                   cur.txn[1].amount = [m |-> 123456, e |-> 2]

\* the ways to write month m and day d before the year text y_text, with and
\* without a leading zero
DateForms(m, d, y_text) ==
    { mm \o "/" \o dd \o "/" \o y_text :
        mm \in {ToString(m), ZeroPad(m, 2)}, dd \in {ToString(d), ZeroPad(d, 2)} }

\* the last n characters of s
LastChars(s, n) == IF Len(s) >= n THEN SubSeq(s, Len(s) - n + 1, Len(s)) ELSE ""

\* the <<year digits, month, day>> that s writes in MM/DD/YY or MM/DD/YYYY
Denotations(s) ==
    { den \in {LastChars(s, 2), LastChars(s, 4)} \X (1..12) \X (1..31) :
        /\ den[1] # "" /\ AllDigits(den[1])
        /\ s \in DateForms(den[2], den[3], den[1]) }

\* the calendar date of a denotation, as date.isoformat() writes it
DenotedDate(den) ==
    LET v == DigitsValue(den[1])
        y == IF Len(den[1]) = 4 THEN v ELSE IF v <= 68 THEN 2000 + v ELSE 1900 + v
    IN  ZeroPad(y, 4) \o "-" \o ZeroPad(den[2], 2) \o "-" \o ZeroPad(den[3], 2)

\* C14: a candidate's date is read as MM/DD/YY and, failing that, MM/DD/YYYY,
\* so "3/4/24" and "03/04/2024" both give 2024-03-04; a candidate whose date
\* string is in neither format (with '-' separators, say, or trailing
\* characters) gives no transaction.
C14_DateFormats ==
    (pc = "parsed" /\ cur.candidate) =>
        /\ Denotations(cur.date_str) = {} => cur.txn = <<>>
        /\ cur.txn # <<>> =>
               \E den \in Denotations(cur.date_str) : cur.txn[1].date = DenotedDate(den)
        /\ (cur.date_str \in {"3/4/24", "03/04/2024"} /\ cur.outcome # "bad_amount") =>
               cur.txn # <<>> /\ cur.txn[1].date = "2024-03-04"

C14_Witness ==
    /\ pc = "parsed" /\ cur.candidate
    /\ cur.kind = "line"
    /\ cur.date_str = "03/04/2024"
    /\ cur.txn # <<>> /\ cur.txn[1].date = "2024-03-04"

\* C17: a table row with fewer than 3 cells gives no transaction in the row
\* loop, and a text line with fewer than 3 whitespace-separated tokens gives
\* none in the line loop, whatever they hold.
C17_ShortRecordsGiveNothing ==
    pc = "parsed" =>
        /\ (cur.kind = "row" /\ Len(cur.row) < 3) => cur.txn = <<>>
        /\ (cur.kind = "line" /\ Len(split(cur.line)) < 3) => cur.txn = <<>>

\* a row of two cells, a date and an amount that both parse, has been read
\* and has given nothing
C17_Witness ==
    /\ pc = "parsed"
    /\ cur.kind = "row"
    /\ cur.row = <<"3/4/24", "45.67">>
    /\ cur.txn = <<>>

(***************************************************************************)
(* The vendor normalizer. A compiled pattern is a sequence of alternatives *)
(* and an alternative a sequence of tokens: a literal, \s*, an optional    *)
(* character, or \b. The patterns are compiled with re.IGNORECASE, so the  *)
(* literals are written folded and matched against the folded description. *)
(***************************************************************************)
lit(text) == [kind |-> "lit", text |-> text]

opt(char) == [kind |-> "opt", text |-> char]

ws_star == [kind |-> "ws*", text |-> ""]

word_boundary == [kind |-> "b", text |-> ""]

VENDOR_NORMALIZATION_RULES ==
    << [pattern |-> << <<word_boundary, lit("affirm"), word_boundary>> >>,
        name |-> "Affirm"],
       [pattern |-> << <<word_boundary, lit("go"), opt("o"), lit("gle"), word_boundary>> >>,
        name |-> "Google"],
       [pattern |-> << <<word_boundary, lit("gsuite"), word_boundary>>,
                       <<word_boundary, lit("workspace"), word_boundary>> >>,
        name |-> "Google"],
       [pattern |-> << <<word_boundary, lit("pay"), ws_star, lit("pal"), word_boundary>>,
                       <<word_boundary, lit("paypal"), word_boundary>> >>,
        name |-> "PayPal"],
       [pattern |-> << <<word_boundary, lit("amazon"), word_boundary>> >>,
        name |-> "Amazon"],
       [pattern |-> << <<lit("mcdonald")>> >>, name |-> "McDonald's"],
       [pattern |-> << <<word_boundary, lit("starbucks"), word_boundary>> >>,
        name |-> "Starbucks"],
       [pattern |-> << <<lit("home"), ws_star, lit("depot")>> >>,
        name |-> "The Home Depot"],
       [pattern |-> << <<word_boundary, lit("apple"), word_boundary>>,
                       <<lit("apple"), opt("."), lit("com")>>,
                       <<lit("applecard")>> >>,
        name |-> "Apple"],
       [pattern |-> << <<word_boundary, lit("microsoft"), word_boundary>>,
                       <<word_boundary, lit("msft"), word_boundary>> >>,
        name |-> "Microsoft"],
       [pattern |-> << <<word_boundary, lit("uber"), word_boundary>> >>, name |-> "Uber"],
       [pattern |-> << <<word_boundary, lit("lyft"), word_boundary>> >>, name |-> "Lyft"] >>

\* \w
IsWordChar(c) == IsAlpha(c) \/ IsDigit(c) \/ c = "_"

\* \b before the character at index i (i = Len(s) + 1: at the end)
IsWordBoundary(s, i) ==
    LET before == i > 1 /\ IsWordChar(CharAt(s, i - 1))
        after == i <= Len(s) /\ IsWordChar(CharAt(s, i))
    IN  before # after

\* the indexes at which a match of the tokens that starts at index i can end
\* (the index of the first character after the match)
RECURSIVE MatchEnds(_, _, _)
MatchEnds(s, i, tokens) ==
    IF tokens = <<>> THEN {i}
    ELSE LET t == Head(tokens)
             rest == Tail(tokens)
         IN  CASE t.kind = "lit" ->
                    IF i + Len(t.text) - 1 <= Len(s)
                       /\ SubSeq(s, i, i + Len(t.text) - 1) = t.text
                    THEN MatchEnds(s, i + Len(t.text), rest)
                    ELSE {}
               [] t.kind = "opt" ->
                    MatchEnds(s, i, rest)
                    \cup (IF i <= Len(s) /\ CharAt(s, i) = t.text
                          THEN MatchEnds(s, i + 1, rest)
                          ELSE {})
               [] t.kind = "ws*" ->
                    UNION { MatchEnds(s, j, rest) :
                              j \in { j \in i..(Len(s) + 1) :
                                        \A k \in i..(j - 1) : IsSpace(CharAt(s, k)) } }
               [] t.kind = "b" ->
                    IF IsWordBoundary(s, i) THEN MatchEnds(s, i, rest) ELSE {}

\* pattern.search(description) is not None
SearchFolded(pattern, folded) ==
    \E a \in 1..Len(pattern) :
        \E i \in 1..(Len(folded) + 1) : MatchEnds(folded, i, pattern[a]) # {}

search(pattern, s) == SearchFolded(pattern, lower(s))

\* re.sub(r"[^A-Za-z\s]", "", s)
RECURSIVE RemoveNonLetters(_)
RemoveNonLetters(s) ==
    IF s = "" THEN ""
    ELSE (IF IsAlpha(CharAt(s, 1)) \/ IsSpace(CharAt(s, 1)) THEN CharAt(s, 1) ELSE "")
         \o RemoveNonLetters(SubSeq(s, 2, Len(s)))

UpperChar(c) ==
    IF IsCharOf(c, LowerCase) THEN CharAt(UpperCase, IndexIn(c, LowerCase)) ELSE c

\* s.title(): a letter that follows a letter is lower-cased, any other letter
\* upper-cased
RECURSIVE TitleFrom(_, _)
TitleFrom(s, after_letter) ==
    IF s = "" THEN ""
    ELSE LET c == CharAt(s, 1)
         IN  (IF after_letter THEN LowerChar(c) ELSE UpperChar(c))
             \o TitleFrom(SubSeq(s, 2, Len(s)), IsAlpha(c))

title(s) == TitleFrom(s, FALSE)

\* words[:3] of the fallback, for two words or fewer all of them
first_words_Two(words) == IF Len(words) >= 2 THEN SubSeq(words, 1, 2) ELSE words

first_words(words) == IF Len(words) >= 3 THEN SubSeq(words, 1, 3) ELSE words

\* the index of the first rule of rules[k..] whose pattern is found, 0 for none
RECURSIVE FirstRule(_, _, _)
FirstRule(rules, k, s) ==
    IF k > Len(rules) THEN 0
    ELSE IF search(rules[k].pattern, s) THEN k
    ELSE FirstRule(rules, k + 1, s)

normalize_vendor(s) ==
    IF s = "" THEN "Unknown"
    ELSE LET k == FirstRule(VENDOR_NORMALIZATION_RULES, 1, s)
         IN  IF k # 0 THEN VENDOR_NORMALIZATION_RULES[k].name
             ELSE LET cleaned == strip(RemoveNonLetters(s))
                  IN  IF cleaned = "" THEN s
                      ELSE title(join(" ", first_words(split(cleaned))))

(***************************************************************************)
(* SpecVendor: normalize_vendor applied to one description, put together   *)
(* from at most MaxPieces fragments: one or two words in mixed case,       *)
(* digits and symbols, and a name one of the rules looks for.              *)
(***************************************************************************)
MaxPieces == 3

VendorFragments == {"RANDOM store ", "new ", "1#", "Uber"}

RECURSIVE VendorDescriptionsOf(_)
VendorDescriptionsOf(n) ==
    IF n = 0 THEN {""}
    ELSE LET shorter == VendorDescriptionsOf(n - 1)
         IN  shorter \cup { d \o f : d \in shorter, f \in VendorFragments }

VendorDescriptions == VendorDescriptionsOf(MaxPieces)

normalized == [d \in VendorDescriptions |-> normalize_vendor(d)]

InitVendor ==
    /\ StoreIdle
    /\ ExtractIdle
    /\ description \in VendorDescriptions
    /\ amount = NoneVal
    /\ category = <<>>
    /\ vendor = <<>>

NormalizeVendor ==
    /\ vendor = <<>>
    /\ description \in VendorDescriptions
    /\ vendor' = <<normalized[description]>>
    /\ UNCHANGED <<description, amount, category, storeVars, extractVars>>

NextVendor == NormalizeVendor

SpecVendor == InitVendor /\ [][NextVendor]_vars

\* no pattern of the rule list is found in the description
NoRuleMatches(d) ==
    \A k \in 1..Len(VENDOR_NORMALIZATION_RULES) :
        ~ search(VENDOR_NORMALIZATION_RULES[k].pattern, d)

\* the letters and whitespace of d, in order
RECURSIVE LettersAndSpaces(_)
LettersAndSpaces(d) ==
    IF d = "" THEN ""
    ELSE LET c == CharAt(d, Len(d))
             front == LettersAndSpaces(SubSeq(d, 1, Len(d) - 1))
         IN  IF IsAlpha(c) \/ IsSpace(c) THEN front \o c ELSE front

TitleWord(w) == UpperChar(CharAt(w, 1)) \o lower(SubSeq(w, 2, Len(w)))

\* the first up to three words of what remains of d, title-cased, and d itself
\* when nothing remains
FallbackName(d) ==
    LET words == split(LettersAndSpaces(d))
        n == IF Len(words) < 3 THEN Len(words) ELSE 3
    IN  IF words = <<>> THEN d
        ELSE join(" ", [i \in 1..n |-> TitleWord(words[i])])

fallback ==
    [d \in VendorDescriptions |->
        [unmatched |-> NoRuleMatches(d), name |-> FallbackName(d),
         words |-> Len(split(LettersAndSpaces(d)))]]

\* C15 as stated: for every description no normalization rule matches,
\* normalize_vendor returns the first up to three words of the letters and
\* whitespace of the description, title-cased, and the description itself when
\* no letter remains. The empty description refutes it: it answers "Unknown".
C15_FallbackOfEveryDescription ==
    (vendor # <<>> /\ fallback[description].unmatched)
        => vendor = <<fallback[description].name>>

\* C15: for every non-empty description no normalization rule matches,
\* normalize_vendor returns the first up to three words of the letters and
\* whitespace of the description, title-cased, and the description itself when
\* no letter remains; for the empty description it returns "Unknown".
C15_FallbackOfNonEmptyDescription ==
    (vendor # <<>> /\ fallback[description].unmatched)
        => vendor = <<IF description = "" THEN "Unknown" ELSE fallback[description].name>>

\* a description of four words in mixed case, with digits and symbols, that no
\* rule matches has been normalized to its first three words
C15_Witness ==
    /\ vendor # <<>>
    /\ fallback[description].unmatched
    /\ fallback[description].words > 3
    /\ description # LettersAndSpaces(description)
    /\ vendor = <<fallback[description].name>>
    /\ vendor # <<description>>

\* the empty description has been normalized to "Unknown"
C15_EmptyDescription ==
    /\ description = ""
    /\ vendor = <<"Unknown">>
    /\ fallback[description].unmatched

(***************************************************************************)
(* Spec: the store. financial_data is the module-level dict, year ->       *)
(* month -> bucket, and each request handler that writes it is one action, *)
(* taken from its first line to its return. request and response record    *)
(* the handler that ran last and the status it answered with. Writes are   *)
(* taken while the store holds at most MaxTxns transactions. The           *)
(* upload_date of pdf_info is the wall clock and is left out. Saving and   *)
(* removing the uploaded file are taken to succeed. A form field that is   *)
(* missing and one that is empty take the same branch of "not year" and    *)
(* are both the empty string.                                              *)
(***************************************************************************)
MaxTxns == 2

Years == {"2024"}
Months == {"03", "04"}

\* request.form.get('year'), request.form.get('month')
FormYears == Years \cup {""}
FormMonths == Months \cup {""}

\* file.filename
Filenames == {"", "notes.txt", "s.PDF"}

\* the documents behind an uploaded file
UploadDocs ==
    { [openable |-> FALSE, pages |-> <<>>],
      [openable |-> TRUE,
       pages |-> << [tables |-> <<>>, text |-> "03/02/24 COFFEE (12.00)"] >>] }

\* request.get_json() of add_transaction
AddData ==
    { [date |-> "2024-03-04", description |-> "COFFEE", amount |-> "4.50"],
      [date |-> "2024-03-04", description |-> "COFFEE", amount |-> "abc"],
      [date |-> "2024-03-04", description |-> "COFFEE"] }

\* request.get_json() of update_transaction
UpdateData ==
    { [category |-> "Bogus"] }

\* file.filename.lower().endswith('.pdf'), for each file name
is_pdf == [filename \in Filenames |-> endswith(lower(filename), ".pdf")]

\* float(data['amount']), for each amount a request carries
float_of ==
    [amount_str \in { data.amount : data \in { d \in AddData : "amount" \in DOMAIN d } } |->
        float(amount_str)]

\* extracted_transactions = extract_transactions_from_pdf(filepath), for each
\* document the saved file can be
extracted_from == [pdf \in UploadDocs |-> extract_transactions_from_pdf(pdf)]

new_bucket == [transactions |-> <<>>, pdf_info |-> NoneVal, processed |-> FALSE]

\* year in financial_data and month in financial_data[year]
HasBucket(fd, year, month) == year \in DOMAIN fd /\ month \in DOMAIN fd[year]

\* as init_bucket, with the bucket assigned whether or not the month is there
init_bucket_Unconditional(fd, year, month) ==
    LET with_year == IF year \in DOMAIN fd THEN fd ELSE fd @@ (year :> <<>>)
    IN  [with_year EXCEPT ![year] = (month :> new_bucket) @@ @]

\* as init_bucket, but "financial_data[year] = {}" whenever the month is missing
init_bucket_FreshYear(fd, year, month) ==
    IF HasBucket(fd, year, month)
    THEN fd
    ELSE (year :> (month :> new_bucket)) @@ fd

\* "if year not in financial_data: ...; if month not in financial_data[year]: ..."
init_bucket(fd, year, month) ==
    LET with_year == IF year \in DOMAIN fd THEN fd ELSE fd @@ (year :> <<>>)
    IN  IF month \in DOMAIN with_year[year]
        THEN with_year
        ELSE [with_year EXCEPT ![year] = @ @@ (month :> new_bucket)]

\* every id stored anywhere, the ids a client can have been told of
StoredIds(fd) ==
    UNION { UNION { { fd[y][m].transactions[i].id :
                        i \in 1..Len(fd[y][m].transactions) } :
                    m \in DOMAIN fd[y] } :
            y \in DOMAIN fd }

\* the index of the first transaction of the list with this id, 0 if none
FirstWithId(transactions_list, transaction_id) ==
    LET hits == { i \in 1..Len(transactions_list) :
                    transactions_list[i].id = transaction_id }
    IN  IF hits = {} THEN 0 ELSE CHOOSE i \in hits : \A j \in hits : i <= j

\* transactions_list.pop(i), i counted from 1
pop(transactions_list, i) ==
    SubSeq(transactions_list, 1, i - 1)
    \o SubSeq(transactions_list, i + 1, Len(transactions_list))

\* transaction['id'] = f"{year}_{month}_{filename}_{i}" for i, transaction in enumerate(...)
with_ids(extracted_transactions, year, month, filename) ==
    [ i \in 1..Len(extracted_transactions) |->
        ("id" :> (year \o "_" \o month \o "_" \o filename \o "_" \o ToString(i - 1)))
        @@ extracted_transactions[i] ]

\* as store, with the extracted transactions added to the ones already there
store_Extending(fd, year, month, extracted_transactions, filename) ==
    [fd EXCEPT
        ![year][month].transactions = @ \o extracted_transactions,
        ![year][month].pdf_info =
            [filename |-> filename,
             transaction_count |-> Len(extracted_transactions)]]

\* "Store transactions and PDF info" of upload_file
store(fd, year, month, extracted_transactions, filename) ==
    [fd EXCEPT
        ![year][month].transactions = extracted_transactions,
        ![year][month].pdf_info =
            [filename |-> filename,
             transaction_count |-> Len(extracted_transactions)]]

\* the four "if ... in data" assignments of update_transaction
updated(transaction, data) ==
    [ field \in DOMAIN transaction |->
        IF field \in DOMAIN data \cap {"category", "description", "amount", "date"}
        THEN data[field]
        ELSE transaction[field] ]

Answer(op, status) ==
    /\ request' = op
    /\ response' = status

RECURSIVE SumLen(_, _)
SumLen(fd, buckets) ==
    IF buckets = {} THEN 0
    ELSE LET b == CHOOSE x \in buckets : TRUE
         IN  Len(fd[b[1]][b[2]].transactions) + SumLen(fd, buckets \ {b})

\* how many transactions the store holds
TotalStored(fd) ==
    SumLen(fd, { b \in Years \X Months : HasBucket(fd, b[1], b[2]) })

Init ==
    /\ StoreIdle /\ ExtractIdle /\ CatIdle

\* the inputs are read as the handler's tests reach them; "not year or not
\* month" is two tests, the second made only when the first fails
upload_file ==
    /\ \E has_file \in BOOLEAN :
        IF ~ has_file
        THEN /\ Answer("upload_file", 400)
             /\ UNCHANGED financial_data
        ELSE \E filename \in Filenames :
            IF filename = ""
            THEN /\ Answer("upload_file", 400)
                 /\ UNCHANGED financial_data
            ELSE \E year \in FormYears :
                IF year = ""
                THEN /\ Answer("upload_file", 400)
                     /\ UNCHANGED financial_data
                ELSE \E month \in FormMonths :
                    IF month = ""
                    THEN /\ Answer("upload_file", 400)
                         /\ UNCHANGED financial_data
                    ELSE IF is_pdf[filename]
                    THEN \E pdf \in UploadDocs :
                        LET extracted_transactions ==
                                with_ids(extracted_from[pdf], year, month, filename)
                            fd == init_bucket(financial_data, year, month)
                        IN  /\ financial_data' =
                                   store(fd, year, month, extracted_transactions, filename)
                            /\ TotalStored(financial_data') <= MaxTxns
                            /\ Answer("upload_file", 200)
                    ELSE /\ Answer("upload_file", 400)
                         /\ UNCHANGED financial_data
    /\ UNCHANGED <<handlers, extractVars, catVars>>

mark_month_processed ==
    \E year \in Years, month \in Months :
        /\ IF year \in DOMAIN financial_data
           THEN IF month \in DOMAIN financial_data[year]
                THEN /\ financial_data' =
                            [financial_data EXCEPT ![year][month].processed = TRUE]
                     /\ Answer("mark_month_processed", 200)
                ELSE /\ Answer("mark_month_processed", 404)
                     /\ UNCHANGED financial_data
           ELSE /\ Answer("mark_month_processed", 404)
                /\ UNCHANGED financial_data
        /\ UNCHANGED <<handlers, extractVars, catVars>>

update_transaction ==
    \E year \in Years, month \in Months, data \in UpdateData,
       transaction_id \in StoredIds(financial_data) \cup {"unknown"} :
        /\ LET i == IF HasBucket(financial_data, year, month)
                    THEN FirstWithId(financial_data[year][month].transactions,
                                     transaction_id)
                    ELSE 0
           IN  IF i # 0
               THEN /\ financial_data' =
                           [financial_data EXCEPT
                               ![year][month].transactions[i] = updated(@, data)]
                    /\ Answer("update_transaction", 200)
               ELSE /\ Answer("update_transaction", 404)
                    /\ UNCHANGED financial_data
        /\ UNCHANGED <<handlers, extractVars, catVars>>

delete_transaction ==
    \E year \in Years, month \in Months,
       transaction_id \in StoredIds(financial_data) \cup {"unknown"} :
        /\ LET i == IF HasBucket(financial_data, year, month)
                    THEN FirstWithId(financial_data[year][month].transactions,
                                     transaction_id)
                    ELSE 0
           IN  IF i # 0
               THEN /\ financial_data' =
                           [financial_data EXCEPT
                               ![year][month].transactions = pop(@, i)]
                    /\ Answer("delete_transaction", 200)
               ELSE /\ Answer("delete_transaction", 404)
                    /\ UNCHANGED financial_data
        /\ UNCHANGED <<handlers, extractVars, catVars>>

\* an exception that leaves the handler is answered with status 500
add_transaction ==
    \E year \in Years, month \in Months, data \in AddData :
        /\ IF ~ ({"date", "description", "amount"} \subseteq DOMAIN data)
           THEN /\ Answer("add_transaction", 400)
                /\ UNCHANGED financial_data
           ELSE LET fd == init_bucket(financial_data, year, month)
                    transaction_count == Len(fd[year][month].transactions)
                    transaction_id ==
                        year \o "_" \o month \o "_manual_" \o ToString(transaction_count)
                    amount_value == float_of[data.amount]
                    new_transaction ==
                        [id |-> transaction_id,
                         date |-> data.date,
                         description |-> data.description,
                         amount |-> amount_value,
                         category |-> IF "category" \in DOMAIN data
                                      THEN data.category
                                      ELSE "Uncategorized"]
                IN  IF amount_value = ValueError
                    THEN /\ financial_data' = fd
                         /\ Answer("add_transaction", 500)
                    ELSE /\ TotalStored(financial_data) < MaxTxns
                         /\ financial_data' =
                                [fd EXCEPT ![year][month].transactions =
                                               Append(@, new_transaction)]
                         /\ Answer("add_transaction", 200)
        /\ UNCHANGED <<handlers, extractVars, catVars>>

Next ==
    \/ upload_file
    \/ mark_month_processed
    \/ update_transaction
    \/ delete_transaction
    \/ add_transaction

Spec == Init /\ [][Next]_vars

(***************************************************************************)
(* SpecRace: add_transaction called by MaxRequests request threads at      *)
(* once, for the same year and month, on the store as it is after start.   *)
(* The development server answers each request on a thread of its own and  *)
(* the handler takes no lock, so the calls interleave. A step is one       *)
(* statement or one test of the handler; the request bodies carry the      *)
(* three required fields and an amount that converts. A subscript on a key *)
(* that is not there raises KeyError, which is answered with status 500.   *)
(***************************************************************************)
RaceYear == "2024"
RaceMonth == "03"

\* request.get_json() of the request thread t is given
RaceData(t) ==
    [date |-> "2024-03-04", description |-> "COFFEE " \o ToString(t), amount |-> "4.50"]

InProgress(h) == h.pc \notin {"idle", "done"}

\* "month not in financial_data[year]", always true
month_not_in_Always(fd, year, month) == TRUE

\* "year not in financial_data"
year_not_in(fd, year) == year \notin DOMAIN fd

\* "month not in financial_data[year]"
month_not_in(fd, year, month) == month \notin DOMAIN fd[year]

InitRace ==
    /\ StoreIdle /\ ExtractIdle /\ CatIdle

\* the handler is entered and finds the required fields
AddBegin(t) ==
    /\ handlers[t].pc = "idle"
    /\ handlers' =
           [u \in Threads |->
               IF u = t
               THEN [handlers[t] EXCEPT
                        !.pc = "test_year",
                        !.overlapped = \E v \in Threads : InProgress(handlers[v])]
               ELSE IF InProgress(handlers[u])
               THEN [handlers[u] EXCEPT !.overlapped = TRUE]
               ELSE handlers[u]]
    /\ UNCHANGED <<financial_data, response, request, extractVars, catVars>>

\* if year not in financial_data:
AddTestYear(t) ==
    /\ handlers[t].pc = "test_year"
    /\ handlers' =
           [handlers EXCEPT
               ![t].pc = IF year_not_in(financial_data, RaceYear)
                         THEN "make_year"
                         ELSE "test_month"]
    /\ UNCHANGED <<financial_data, response, request, extractVars, catVars>>

\* financial_data[year] = {}
AddMakeYear(t) ==
    /\ handlers[t].pc = "make_year"
    /\ financial_data' = (RaceYear :> <<>>) @@ financial_data
    /\ handlers' = [handlers EXCEPT ![t].pc = "test_month"]
    /\ UNCHANGED <<response, request, extractVars, catVars>>

\* if month not in financial_data[year]:
AddTestMonth(t) ==
    /\ handlers[t].pc = "test_month"
    /\ handlers' =
           [handlers EXCEPT
               ![t].pc = IF month_not_in(financial_data, RaceYear, RaceMonth)
                         THEN "make_bucket"
                         ELSE "count"]
    /\ UNCHANGED <<financial_data, response, request, extractVars, catVars>>

\* financial_data[year][month] = {'transactions': [], 'pdf_info': None, 'processed': False}
AddMakeBucket(t) ==
    /\ handlers[t].pc = "make_bucket"
    /\ financial_data' =
           [financial_data EXCEPT ![RaceYear] = (RaceMonth :> new_bucket) @@ @]
    /\ handlers' = [handlers EXCEPT ![t].pc = "count"]
    /\ UNCHANGED <<response, request, extractVars, catVars>>

\* transaction_count = len(financial_data[year][month]['transactions'])
AddCount(t) ==
    /\ handlers[t].pc = "count"
    /\ handlers' =
           IF HasBucket(financial_data, RaceYear, RaceMonth)
           THEN [handlers EXCEPT
                    ![t].pc = "append",
                    ![t].transaction_count =
                        Len(financial_data[RaceYear][RaceMonth].transactions)]
           ELSE [handlers EXCEPT ![t].pc = "done", ![t].status = 500]
    /\ UNCHANGED <<financial_data, response, request, extractVars, catVars>>

\* the transaction the request thread t builds from its body and the count it read
race_transaction(t, transaction_count) ==
    [id |-> RaceYear \o "_" \o RaceMonth \o "_manual_" \o ToString(transaction_count),
     date |-> RaceData(t).date,
     description |-> RaceData(t).description,
     amount |-> float(RaceData(t).amount),
     category |-> "Uncategorized"]

\* financial_data[year][month]['transactions'].append(new_transaction), and the return
AddAppend(t) ==
    /\ handlers[t].pc = "append"
    /\ IF HasBucket(financial_data, RaceYear, RaceMonth)
       THEN /\ financial_data' =
                   [financial_data EXCEPT
                       ![RaceYear][RaceMonth].transactions =
                           Append(@, race_transaction(t, handlers[t].transaction_count))]
            /\ handlers' = [handlers EXCEPT ![t].pc = "done", ![t].status = 200]
       ELSE /\ handlers' = [handlers EXCEPT ![t].pc = "done", ![t].status = 500]
            /\ UNCHANGED financial_data
    /\ UNCHANGED <<response, request, extractVars, catVars>>

NextRace ==
    \/ \E t \in Threads : AddBegin(t)
    \/ \E t \in Threads : AddTestYear(t)
    \/ \E t \in Threads : AddMakeYear(t)
    \/ \E t \in Threads : AddTestMonth(t)
    \/ \E t \in Threads : AddMakeBucket(t)
    \/ \E t \in Threads : AddCount(t)
    \/ \E t \in Threads : AddAppend(t)

SpecRace == InitRace /\ [][NextRace]_vars

\* the transactions of the bucket the requests are for
RaceStored ==
    IF HasBucket(financial_data, RaceYear, RaceMonth)
    THEN financial_data[RaceYear][RaceMonth].transactions
    ELSE <<>>

\* the transaction of the request thread t is in the bucket
IsStored(t) ==
    \E i \in 1..Len(RaceStored) : RaceStored[i].description = RaceData(t).description

\* C18: add_transaction takes no lock. Calls that are served one after the
\* other all answer with success, leave their transactions in the bucket and
\* give them different ids; a transaction that is lost, or an id that two
\* transactions share, comes of two calls under way at once.
C18_OnlyInterleavingLoses ==
    (\A t \in Threads : ~ handlers[t].overlapped) =>
        /\ \A t \in Threads :
               handlers[t].pc = "done" => handlers[t].status = 200 /\ IsStored(t)
        /\ \A i, j \in 1..Len(RaceStored) : i # j => RaceStored[i].id # RaceStored[j].id

\* two calls have interleaved and both answered with success, and the bucket
\* holds one transaction only: the bucket was made again over the other
C18_Witness ==
    /\ handlers[1].pc = "done" /\ handlers[1].status = 200
    /\ handlers[2].pc = "done" /\ handlers[2].status = 200
    /\ Len(RaceStored) = 1
    /\ ~ IsStored(1) \/ ~ IsStored(2)

\* two calls have interleaved and both answered with success, and the bucket
\* holds both transactions under one id
C18_SameId ==
    /\ handlers[1].pc = "done" /\ handlers[1].status = 200
    /\ handlers[2].pc = "done" /\ handlers[2].status = 200
    /\ IsStored(1) /\ IsStored(2)
    /\ Len(RaceStored) = 2
    /\ RaceStored[1].id = RaceStored[2].id

(***************************************************************************)
(* The store's invariants.                                                 *)
(***************************************************************************)
Buckets == { <<y, m>> \in Years \X Months : HasBucket(financial_data, y, m) }

StoredTransactions(b) == financial_data[b[1]][b[2]].transactions

\* C1: after any sequence of upload_file, add_transaction, update_transaction
\* and delete_transaction requests, no two transactions stored in the same
\* year/month bucket have the same id.
C1_IdsUniqueInBucket ==
    \A b \in Buckets :
        \A i, j \in 1..Len(StoredTransactions(b)) :
            i # j => StoredTransactions(b)[i].id # StoredTransactions(b)[j].id

\* C2: after any sequence of upload, add, update and delete operations, the
\* category of every transaction stored in every bucket is one of the 19
\* names of the CATEGORIES enumeration.
C2_CategoryInEnumeration ==
    \A b \in Buckets :
        \A i \in 1..Len(StoredTransactions(b)) :
            \E k \in 1..Len(CATEGORIES) : StoredTransactions(b)[i].category = CATEGORIES[k]

BucketsOf(fd) == { <<y, m>> \in Years \X Months : HasBucket(fd, y, m) }

\* the step has made the bucket b
Created(b) == b \in BucketsOf(financial_data') \ BucketsOf(financial_data)

\* every bucket and every year of this state is there in the next
NothingRemoved ==
    /\ BucketsOf(financial_data) \subseteq BucketsOf(financial_data')
    /\ DOMAIN financial_data \subseteq DOMAIN financial_data'

C19_ErrorsLeaveStoreUnchanged ==
    [][response' >= 400 => financial_data' = financial_data]_vars

\* the list is what some document gives, numbered from 0 under the ids of this
\* year, month and file name
IsExtractedList(transactions_list, year, month, filename) ==
    \E pdf \in UploadDocs :
        /\ Len(transactions_list) = Len(extracted_from[pdf])
        /\ \A i \in 1..Len(transactions_list) :
               /\ transactions_list[i].id =
                      year \o "_" \o month \o "_" \o filename \o "_" \o ToString(i - 1)
               /\ \A field \in DOMAIN extracted_from[pdf][i] :
                      transactions_list[i][field] = extracted_from[pdf][i][field]

\* C20: a successful upload leaves in the bucket of its year and month the
\* newly extracted list and nothing else, with pdf_info.transaction_count the
\* length of that list, and leaves every other bucket as it was.
C20_UploadReplacesBucket ==
    [][(request' = "upload_file" /\ response' = 200) =>
          \E b \in BucketsOf(financial_data') :
              LET bucket == financial_data'[b[1]][b[2]]
              IN  /\ bucket.pdf_info # NoneVal
                  /\ bucket.pdf_info.transaction_count = Len(bucket.transactions)
                  /\ IsExtractedList(bucket.transactions, b[1], b[2],
                                     bucket.pdf_info.filename)
                  /\ \A c \in (Years \X Months) \ {b} :
                         /\ c \in BucketsOf(financial_data') <=>
                                c \in BucketsOf(financial_data)
                         /\ c \in BucketsOf(financial_data) =>
                                financial_data'[c[1]][c[2]] = financial_data[c[1]][c[2]]
      ]_vars

\* an upload has answered with success for a month that had been marked
\* processed: the bucket holds the one extracted transaction, counted by
\* pdf_info, and the other month still holds the transaction added by hand
C20_Witness ==
    /\ request = "upload_file" /\ response = 200
    /\ Buckets = Years \X Months
    /\ \E b \in Buckets :
           /\ financial_data[b[1]][b[2]].processed
           /\ financial_data[b[1]][b[2]].pdf_info # NoneVal
           /\ financial_data[b[1]][b[2]].pdf_info.transaction_count = 1
           /\ Len(StoredTransactions(b)) = 1
           /\ \E c \in Buckets \ {b} :
                  /\ financial_data[c[1]][c[2]].pdf_info = NoneVal
                  /\ Len(StoredTransactions(c)) = 1

\* the bucket b is there and marked processed
IsProcessed(fd, b) == HasBucket(fd, b[1], b[2]) /\ fd[b[1]][b[2]].processed

====
